---------------------------- MODULE Spec2Model ----------------------------
(***************************************************************************)
(* A model of images.go: the driver (main), the sitemap reader             *)
(* (parseSitemap), the fetcher (makeRequest), the extractor                *)
(* (DefaultParser.GetMediaData) and the bounded-concurrency coordinator    *)
(* (scrapeImages) with its goroutines, its token channel, its mutex and    *)
(* its completion channel.                                                 *)
(*                                                                         *)
(* The process is entered either at main (caller = "main") or at           *)
(* scrapeImages (caller = "direct": the function called with a list of     *)
(* URLs and a concurrency chosen by the caller).                           *)
(***************************************************************************)
EXTENDS Naturals, Sequences, FiniteSets, TLC

VARIABLES
    caller,     \* "main" or "direct": who calls scrapeImages
    mpc,        \* position of the main goroutine
    fileOpen,   \* image_results.txt has been created (and truncated)
    file,       \* the blocks written to image_results.txt, in order
    wi,         \* main's loop index over the returned results
    urls,       \* scrapeImages' argument urls
    budget,     \* scrapeImages' argument concurrency
    launched,   \* number of goroutines started by the for loop
    pc,         \* position of each goroutine, by index of its URL
    tokens,     \* number of elements in the channel tokens
    mu,         \* holder of the mutex mu (0 when unlocked)
    results,    \* the slice results
    worklist,   \* the elements in the channel worklist
    received,   \* number of receives done by the join loop
    sent,       \* number of sends on worklist done by each goroutine
    sitemapRead,\* parseSitemap has requested the sitemap
    errlog,     \* goroutines whose error line has been logged
    crashed,    \* the process died of an unrecovered panic
    xdoc,       \* a response handed to GetMediaData on its own
    xout        \* what GetMediaData returned for xdoc, call after call

vars == << caller, mpc, fileOpen, file, wi, urls, budget, launched, pc,
           tokens, mu, results, worklist, received, sent, sitemapRead,
           errlog, crashed, xdoc, xout >>

-----------------------------------------------------------------------------
(* Bounds of the model *)

MaxUrls == 3
MaxBudget == 2
MaxImgs == 3

(* concurrency := 50 in main *)
Concurrency == 50

-----------------------------------------------------------------------------
(* The pages of the modelled web.                                          *)
(*   "a"    answers 200 with a readable body                               *)
(*   "r"    is redirected to "h", which answers 404 with a readable body   *)
(*   "down" refuses the connection (client.Do returns an error)            *)
(*   "cut"  answers 200 but its body cannot be read to the end             *)
(*   ":bad" is not a URL (url.Parse fails inside http.NewRequest)          *)

URLS == {"a", "r", "down", "cut", ":bad"}

Malformed(u) == u = ":bad"

Unreachable(u) == u = "down"

FinalURL(u) == IF u = "r" THEN "h" ELSE u

StatusOf(u) == IF u = "r" THEN 404 ELSE 200

BodyReadable(u) == u # "cut"

(* an img element: s.Attr("src") returns its value and whether it exists *)
Img(src) == [exists |-> TRUE, src |-> src]

NoSrcImg == [exists |-> FALSE, src |-> ""]

(* the img elements of the page, in document order *)
ImgsOf(u) == IF u = "a" THEN << Img("a.png"), NoSrcImg, Img("b.jpg") >> ELSE << >>

(* makeRequest that turns a status outside 2xx into an error *)
makeRequestRejectingNon2xx(u) ==
    IF Malformed(u) THEN [kind |-> "panic"]
    ELSE IF Unreachable(u) \/ StatusOf(u) \notin 200 .. 299 THEN [kind |-> "err"]
    ELSE [kind |-> "res", URL |-> FinalURL(u), StatusCode |-> StatusOf(u),
          readable |-> BodyReadable(u), imgs |-> ImgsOf(u)]

(* makeRequest(url): "panic" when http.NewRequest fails, because            *)
(* req.Header.Set is called on the nil request before err is tested;       *)
(* otherwise the error or the response of client.Do.                       *)
makeRequest(u) ==
    IF Malformed(u) THEN [kind |-> "panic"]
    ELSE IF Unreachable(u) THEN [kind |-> "err"]
    ELSE [kind |-> "res", URL |-> FinalURL(u), StatusCode |-> StatusOf(u),
          readable |-> BodyReadable(u), imgs |-> ImgsOf(u)]

(* ImageSrcs that takes the value of src without looking at "exists" *)
RECURSIVE ImageSrcsIgnoringExists(_)
ImageSrcsIgnoringExists(imgs) ==
    IF imgs = << >> THEN << >>
    ELSE Append(ImageSrcsIgnoringExists(SubSeq(imgs, 1, Len(imgs) - 1)),
                imgs[Len(imgs)].src)

(* doc.Find("img").Each(...): imageURLs starts empty and, img after img in *)
(* document order, gets the src appended when the attribute exists         *)
RECURSIVE ImageSrcs(_)
ImageSrcs(imgs) ==
    IF imgs = << >> THEN << >>
    ELSE LET before == ImageSrcs(SubSeq(imgs, 1, Len(imgs) - 1))
             s == imgs[Len(imgs)]
         IN  IF s.exists THEN Append(before, s.src) ELSE before

(* DefaultParser.GetMediaData(resp); the meta description is left out *)
GetMediaData(resp) ==
    IF ~resp.readable THEN [kind |-> "err"]
    ELSE [kind |-> "data",
          data |-> [URL |-> resp.URL, StatusCode |-> resp.StatusCode,
                    ImageURLs |-> ImageSrcs(resp.imgs)]]

-----------------------------------------------------------------------------
RECURSIVE SeqsUpTo(_, _)
SeqsUpTo(S, n) ==
    IF n = 0 THEN { << >> }
    ELSE LET shorter == SeqsUpTo(S, n - 1)
         IN  shorter \cup { Append(s, x) : s \in {q \in shorter : Len(q) = n - 1}, x \in S }

UrlLists == SeqsUpTo(URLS, MaxUrls)

(* the documents handed to GetMediaData on its own: up to MaxImgs img      *)
(* elements, with a src, with an empty src or without one                  *)
Documents == SeqsUpTo({Img("a.png"), Img("b.jpg"), Img(""), NoSrcImg}, MaxImgs)

Tasks == 1 .. Len(urls)

(* worklist made one slot short *)
WorklistCapOneShort == Len(urls) - 1

(* worklist := make(chan string, len(urls)) *)
WorklistCap == Len(urls)

(* the completion signals sent so far: those in the channel and those the  *)
(* join loop has received                                                  *)
SignalsSent == Len(worklist) + received

(* the process is running: no unrecovered panic, no exit *)
Alive == ~crashed /\ mpc \notin {"exit", "fatal"}

(* the goroutine of urls[t] is between its send on tokens and its deferred *)
(* receive from tokens                                                     *)
Holding(t) ==
    pc[t] \in {"fetch", "parse", "lock", "append", "unlock", "send", "release",
               "panicking"}

InFlight == Cardinality({t \in Tasks : Holding(t)})

(* scrapeImages has been called / has returned to its caller *)
Called == mpc \in {"scrape", "returned", "write", "exit"}

Returned == mpc \in {"returned", "write", "exit"}

(* the fetch or the extraction of u does not yield a MediaData *)
Failing(u) ==
    LET r == makeRequest(u)
    IN  r.kind # "res" \/ GetMediaData(r).kind # "data"

NonFailing == {t \in Tasks : ~Failing(urls[t])}

(* the MediaData of a page whose fetch and extraction succeed *)
RecordOf(u) == GetMediaData(makeRequest(u)).data

(* the goroutine of urls[t] is between mu.Lock() and mu.Unlock() *)
InCritical(t) == pc[t] \in {"append", "unlock"}

(* the goroutine of urls[t] has executed its append *)
Appended(t) == pc[t] \in {"unlock", "send", "release", "done"} /\ ~Failing(urls[t])

-----------------------------------------------------------------------------
(* the state on entry: nothing created, launched, sent or logged yet *)
Fresh ==
    /\ fileOpen = FALSE
    /\ file = << >>
    /\ wi = 0
    /\ launched = 0
    /\ tokens = 0
    /\ mu = 0
    /\ results = << >>
    /\ worklist = << >>
    /\ received = 0
    /\ sitemapRead = FALSE
    /\ errlog = {}
    /\ crashed = FALSE
    /\ pc = [t \in 1 .. Len(urls) |-> "unborn"]
    /\ sent = [t \in 1 .. Len(urls) |-> 0]

(* GetMediaData is not called on its own *)
NoExtraction ==
    /\ xdoc = [kind |-> "none"]
    /\ xout = << >>

Init ==
    /\ caller \in {"main", "direct"}
    /\ IF caller = "main"
       THEN /\ mpc = "create"
            /\ urls = << >>
            /\ budget = Concurrency
       ELSE /\ mpc = "scrape"
            /\ urls \in UrlLists
            /\ budget \in 0 .. MaxBudget
    /\ Fresh
    /\ NoExtraction

(* GetMediaData called on its own with a response holding a document *)
InitExtract ==
    /\ caller = "direct"
    /\ mpc = "extract"
    /\ urls = << >>
    /\ budget = 0
    /\ Fresh
    /\ xdoc \in [kind : {"res"}, URL : {"a"}, StatusCode : {200, 404},
                 readable : BOOLEAN, imgs : Documents]
    /\ xout = << >>

(* the scenario of five URLs under a budget of one, beside the others *)
InitFive ==
    \/ Init
    \/ /\ caller = "direct"
       /\ mpc = "scrape"
       /\ urls \in [1 .. 5 -> URLS]
       /\ budget = 1
       /\ Fresh
       /\ NoExtraction

-----------------------------------------------------------------------------
(* main *)

(* CreateFile with the error of os.Create ignored *)
CreateFileIgnoringError ==
    /\ Alive
    /\ mpc = "create"
    /\ fileOpen' \in {TRUE, FALSE}
    /\ mpc' = "sitemap"
    /\ UNCHANGED << caller, file, wi, urls, budget, launched, pc, tokens, mu,
                    results, worklist, received, errlog, crashed, sent,
                    sitemapRead, xdoc, xout >>

(* os.Create("image_results.txt"); log.Fatalf when it fails *)
CreateFile ==
    /\ Alive
    /\ mpc = "create"
    /\ \/ /\ fileOpen' = TRUE
          /\ mpc' = "sitemap"
       \/ /\ fileOpen' = FALSE
          /\ mpc' = "fatal"
    /\ UNCHANGED << caller, file, wi, urls, budget, launched, pc, tokens, mu,
                    results, worklist, received, errlog, crashed, sent,
                    sitemapRead, xdoc, xout >>

(* urls, err := parseSitemap(sitemapURL): the fetch fails, the decoding    *)
(* fails, or the <loc> texts are returned in document order; log.Fatalf    *)
(* on error, otherwise scrapeImages(urls, parser, concurrency) is entered. *)
ParseSitemap ==
    /\ Alive
    /\ mpc = "sitemap"
    /\ sitemapRead' = TRUE
    /\ \/ /\ \E cause \in {"fetch", "decode"} : mpc' = "fatal"
          /\ UNCHANGED << urls, pc, sent >>
       \/ /\ \E locs \in UrlLists :
                /\ urls' = locs
                /\ pc' = [t \in 1 .. Len(locs) |-> "unborn"]
                /\ sent' = [t \in 1 .. Len(locs) |-> 0]
          /\ mpc' = "scrape"
    /\ UNCHANGED << caller, fileOpen, file, wi, budget, launched, tokens, mu,
                    results, worklist, received, errlog, crashed,
                    xdoc, xout >>

(* the block main formats for one MediaData *)
Block(res) ==
    << "URL: ", res.URL, "StatusCode: ", res.StatusCode, "Images:", res.ImageURLs >>

(* one iteration of the loop over results: outputFile.WriteString(output), *)
(* whose error is only logged                                              *)
WriteResult ==
    /\ Alive
    /\ mpc = "write"
    /\ wi < Len(results)
    /\ wi' = wi + 1
    /\ \/ file' = Append(file, Block(results[wi + 1]))
       \/ file' = file
    /\ UNCHANGED << caller, mpc, fileOpen, urls, budget, launched, pc,
                    tokens, mu, results, worklist, received, errlog, crashed,
                    sent, sitemapRead, xdoc, xout >>

(* main returns after the loop: the process exits *)
Exit ==
    /\ Alive
    /\ mpc = "write"
    /\ wi = Len(results)
    /\ mpc' = "exit"
    /\ UNCHANGED << caller, fileOpen, file, wi, urls, budget, launched, pc,
                    tokens, mu, results, worklist, received, errlog, crashed,
                    sent, sitemapRead, xdoc, xout >>

-----------------------------------------------------------------------------
(* scrapeImages, the calling goroutine *)

(* Launch that starts no goroutine for a URL already seen in the list *)
LaunchSkippingDuplicates ==
    /\ Alive
    /\ mpc = "scrape"
    /\ launched < Len(urls)
    /\ launched' = launched + 1
    /\ pc' = [pc EXCEPT ![launched + 1] =
                  IF \E k \in 1 .. launched : urls[k] = urls[launched + 1]
                  THEN "done" ELSE "acquire"]
    /\ UNCHANGED << caller, mpc, fileOpen, file, wi, urls, budget, tokens,
                    mu, results, worklist, received, errlog, crashed, sent,
                    sitemapRead, xdoc, xout >>

(* one iteration of "for _, url := range urls { go func(url string) ... }" *)
Launch ==
    /\ Alive
    /\ mpc = "scrape"
    /\ launched < Len(urls)
    /\ launched' = launched + 1
    /\ pc' = [pc EXCEPT ![launched + 1] = "acquire"]
    /\ UNCHANGED << caller, mpc, fileOpen, file, wi, urls, budget, tokens,
                    mu, results, worklist, received, errlog, crashed, sent,
                    sitemapRead, xdoc, xout >>

(* one iteration of "for range urls { <-worklist }" *)
Receive ==
    /\ Alive
    /\ mpc = "scrape"
    /\ launched = Len(urls)
    /\ received < Len(urls)
    /\ worklist # << >>
    /\ worklist' = Tail(worklist)
    /\ received' = received + 1
    /\ UNCHANGED << caller, mpc, fileOpen, file, wi, urls, budget, launched,
                    pc, tokens, mu, results, errlog, crashed, sent,
                    sitemapRead, xdoc, xout >>

(* Return with the join loop one iteration short *)
ReturnOneShort ==
    /\ Alive
    /\ mpc = "scrape"
    /\ launched = Len(urls)
    /\ received + 1 >= Len(urls)
    /\ mpc' = IF caller = "main" THEN "write" ELSE "returned"
    /\ UNCHANGED << caller, fileOpen, file, wi, urls, budget, launched, pc,
                    tokens, mu, results, worklist, received, errlog, crashed,
                    sent, sitemapRead, xdoc, xout >>

(* "return results", reached when the join loop has run len(urls) times *)
Return ==
    /\ Alive
    /\ mpc = "scrape"
    /\ launched = Len(urls)
    /\ received = Len(urls)
    /\ mpc' = IF caller = "main" THEN "write" ELSE "returned"
    /\ UNCHANGED << caller, fileOpen, file, wi, urls, budget, launched, pc,
                    tokens, mu, results, worklist, received, errlog, crashed,
                    sent, sitemapRead, xdoc, xout >>

-----------------------------------------------------------------------------
(* scrapeImages, the goroutine of urls[t] *)

(* Acquire with the capacity test off by one *)
AcquireOffByOne(t) ==
    /\ Alive
    /\ pc[t] = "acquire"
    /\ tokens <= budget
    /\ tokens' = tokens + 1
    /\ pc' = [pc EXCEPT ![t] = "fetch"]
    /\ UNCHANGED << caller, mpc, fileOpen, file, wi, urls, budget, launched,
                    mu, results, worklist, received, errlog, crashed, sent,
                    sitemapRead, xdoc, xout >>

(* tokens <- struct{}{}: a send on a channel of capacity concurrency *)
Acquire(t) ==
    /\ Alive
    /\ pc[t] = "acquire"
    /\ tokens < budget
    /\ tokens' = tokens + 1
    /\ pc' = [pc EXCEPT ![t] = "fetch"]
    /\ UNCHANGED << caller, mpc, fileOpen, file, wi, urls, budget, launched,
                    mu, results, worklist, received, errlog, crashed, sent,
                    sitemapRead, xdoc, xout >>

(* Fetch whose error return sends the completion signal *)
FetchSignallingFailure(t) ==
    /\ Alive
    /\ pc[t] = "fetch"
    /\ LET r == makeRequest(urls[t])
       IN  /\ pc' = [pc EXCEPT ![t] = CASE r.kind = "panic" -> "panicking"
                                        [] r.kind = "err"   -> "send"
                                        [] OTHER            -> "parse"]
           /\ errlog' = IF r.kind = "err" THEN errlog \cup {t} ELSE errlog
    /\ UNCHANGED << caller, mpc, fileOpen, file, wi, urls, budget, launched,
                    tokens, mu, results, worklist, received, crashed, sent,
                    sitemapRead, xdoc, xout >>

(* Fetch with the token released only at the end of the success path: the *)
(* error return gives nothing back                                         *)
FetchNoRelease(t) ==
    /\ Alive
    /\ pc[t] = "fetch"
    /\ LET r == makeRequest(urls[t])
       IN  /\ pc' = [pc EXCEPT ![t] = CASE r.kind = "panic" -> "panicking"
                                        [] r.kind = "err"   -> "done"
                                        [] OTHER            -> "parse"]
           /\ errlog' = IF r.kind = "err" THEN errlog \cup {t} ELSE errlog
    /\ UNCHANGED << caller, mpc, fileOpen, file, wi, urls, budget, launched,
                    tokens, mu, results, worklist, received, crashed, sent,
                    sitemapRead, xdoc, xout >>

(* resp, err := makeRequest(url): on error the line is logged and the      *)
(* goroutine returns; a panic inside makeRequest unwinds the goroutine     *)
Fetch(t) ==
    /\ Alive
    /\ pc[t] = "fetch"
    /\ LET r == makeRequest(urls[t])
       IN  /\ pc' = [pc EXCEPT ![t] = CASE r.kind = "panic" -> "panicking"
                                        [] r.kind = "err"   -> "release"
                                        [] OTHER            -> "parse"]
           /\ errlog' = IF r.kind = "err" THEN errlog \cup {t} ELSE errlog
    /\ UNCHANGED << caller, mpc, fileOpen, file, wi, urls, budget, launched,
                    tokens, mu, results, worklist, received, crashed, sent,
                    sitemapRead, xdoc, xout >>

(* data, err := parser.GetMediaData(resp): on error the line is logged and *)
(* the goroutine returns                                                   *)
Parse(t) ==
    /\ Alive
    /\ pc[t] = "parse"
    /\ LET d == GetMediaData(makeRequest(urls[t]))
       IN  /\ pc' = [pc EXCEPT ![t] = IF d.kind = "err" THEN "release" ELSE "lock"]
           /\ errlog' = IF d.kind = "err" THEN errlog \cup {t} ELSE errlog
    /\ UNCHANGED << caller, mpc, fileOpen, file, wi, urls, budget, launched,
                    tokens, mu, results, worklist, received, crashed, sent,
                    sitemapRead, xdoc, xout >>

(* Lock that does not wait for the mutex to be free *)
LockNotExclusive(t) ==
    /\ Alive
    /\ pc[t] = "lock"
    /\ mu' = t
    /\ pc' = [pc EXCEPT ![t] = "append"]
    /\ UNCHANGED << caller, mpc, fileOpen, file, wi, urls, budget, launched,
                    tokens, results, worklist, received, errlog, crashed,
                    sent, sitemapRead, xdoc, xout >>

(* mu.Lock() *)
Lock(t) ==
    /\ Alive
    /\ pc[t] = "lock"
    /\ mu = 0
    /\ mu' = t
    /\ pc' = [pc EXCEPT ![t] = "append"]
    /\ UNCHANGED << caller, mpc, fileOpen, file, wi, urls, budget, launched,
                    tokens, results, worklist, received, errlog, crashed,
                    sent, sitemapRead, xdoc, xout >>

(* AppendResult that puts the record in front of the slice *)
AppendResultInFront(t) ==
    /\ Alive
    /\ pc[t] = "append"
    /\ results' = << GetMediaData(makeRequest(urls[t])).data >> \o results
    /\ pc' = [pc EXCEPT ![t] = "unlock"]
    /\ UNCHANGED << caller, mpc, fileOpen, file, wi, urls, budget, launched,
                    tokens, mu, worklist, received, errlog, crashed, sent,
                    sitemapRead, xdoc, xout >>

(* results = append(results, data) *)
AppendResult(t) ==
    /\ Alive
    /\ pc[t] = "append"
    /\ results' = Append(results, GetMediaData(makeRequest(urls[t])).data)
    /\ pc' = [pc EXCEPT ![t] = "unlock"]
    /\ UNCHANGED << caller, mpc, fileOpen, file, wi, urls, budget, launched,
                    tokens, mu, worklist, received, errlog, crashed, sent,
                    sitemapRead, xdoc, xout >>

(* mu.Unlock() *)
Unlock(t) ==
    /\ Alive
    /\ pc[t] = "unlock"
    /\ mu' = 0
    /\ pc' = [pc EXCEPT ![t] = "send"]
    /\ UNCHANGED << caller, mpc, fileOpen, file, wi, urls, budget, launched,
                    tokens, results, worklist, received, errlog, crashed,
                    sent, sitemapRead, xdoc, xout >>

(* Send with the token given back before the completion signal *)
SendAfterRelease(t) ==
    /\ Alive
    /\ pc[t] = "send"
    /\ Len(worklist) < WorklistCap
    /\ worklist' = Append(worklist, urls[t])
    /\ sent' = [sent EXCEPT ![t] = @ + 1]
    /\ tokens' = tokens - 1
    /\ pc' = [pc EXCEPT ![t] = "done"]
    /\ UNCHANGED << caller, mpc, fileOpen, file, wi, urls, budget, launched,
                    mu, results, received, errlog, crashed, sitemapRead,
                    xdoc, xout >>

(* worklist <- url: a send on a channel of capacity len(urls); the         *)
(* goroutine then returns                                                  *)
Send(t) ==
    /\ Alive
    /\ pc[t] = "send"
    /\ Len(worklist) < WorklistCap
    /\ worklist' = Append(worklist, urls[t])
    /\ sent' = [sent EXCEPT ![t] = @ + 1]
    /\ pc' = [pc EXCEPT ![t] = "release"]
    /\ UNCHANGED << caller, mpc, fileOpen, file, wi, urls, budget, launched,
                    tokens, mu, results, received, errlog, crashed,
                    sitemapRead, xdoc, xout >>

(* the deferred func() { <-tokens }(), run when the goroutine returns and  *)
(* when it unwinds from a panic; an unrecovered panic then ends the        *)
(* process                                                                 *)
Release(t) ==
    /\ Alive
    /\ pc[t] \in {"release", "panicking"}
    /\ tokens > 0
    /\ tokens' = tokens - 1
    /\ pc' = [pc EXCEPT ![t] = "done"]
    /\ crashed' = (pc[t] = "panicking")
    /\ UNCHANGED << caller, mpc, fileOpen, file, wi, urls, budget, launched,
                    mu, results, worklist, received, errlog, sent,
                    sitemapRead, xdoc, xout >>

-----------------------------------------------------------------------------
TaskStep(t) ==
    \/ Acquire(t)
    \/ Fetch(t)
    \/ Parse(t)
    \/ Lock(t)
    \/ AppendResult(t)
    \/ Unlock(t)
    \/ Send(t)
    \/ Release(t)

MainStep ==
    \/ CreateFile
    \/ ParseSitemap
    \/ WriteResult
    \/ Exit
    \/ Launch
    \/ Receive
    \/ Return

Next ==
    \/ MainStep
    \/ \E t \in Tasks : TaskStep(t)

Spec == Init /\ [][Next]_vars

SpecFive == InitFive /\ [][Next]_vars

(* parser.GetMediaData(resp), called twice with the same document *)
Extract ==
    /\ mpc = "extract"
    /\ Len(xout) < 2
    /\ xout' = Append(xout, GetMediaData(xdoc))
    /\ UNCHANGED << caller, mpc, fileOpen, file, wi, urls, budget, launched,
                    pc, tokens, mu, results, worklist, received, sent,
                    sitemapRead, errlog, crashed, xdoc >>

ExtractSpec == InitExtract /\ [][Extract]_vars

(* the Go scheduler runs every goroutine that can take a step *)
FairSpec ==
    Spec /\ WF_vars(MainStep) /\ \A t \in 1 .. MaxUrls : WF_vars(t \in Tasks /\ TaskStep(t))


-----------------------------------------------------------------------------
(* C1: for every list of URLs and every budget >= 1, whichever URLs fail,  *)
(* scrapeImages eventually returns to its caller under fair scheduling     *)
(* (the runs ended by the panic of makeRequest are left to C7).            *)
C1_AlwaysReturns == (mpc = "scrape" /\ budget >= 1) ~> (Returned \/ crashed)

(* C2: every goroutine that has ended has sent its completion signal       *)
(* exactly once, whether it appended a record, failed to fetch or failed   *)
(* to extract.                                                             *)
C2_ReportsExactlyOnce == \A t \in Tasks : pc[t] = "done" => sent[t] = 1

(* C3: with a budget >= 1, the number of goroutines that have acquired a   *)
(* token and not yet released it never exceeds the budget.                 *)
C3_InFlightAtMostBudget == budget >= 1 => InFlight <= budget

(* C3 witness: the budget is exhausted while another goroutine waits at    *)
(* the gate.                                                               *)
C3_Witness ==
    /\ budget >= 1
    /\ InFlight = budget
    /\ Len(urls) > budget
    /\ \E t \in Tasks : pc[t] = "acquire"

(* C4: when the run has come to rest without a crash, scrapeImages has     *)
(* returned a collection of exactly N-K records, K being the number of     *)
(* failing URLs, each with the URL of a non-failing element of the input.  *)
C4_ReturnsNMinusK ==
    (Called /\ budget >= 1 /\ ~crashed /\ ~ENABLED Next) =>
        /\ Returned
        /\ Len(results) = Cardinality(NonFailing)
        /\ \A i \in 1 .. Len(results) : \E t \in NonFailing : results[i].URL = urls[t]

(* C5: in every state where scrapeImages has returned, it has received     *)
(* len(urls) completion signals and every goroutine has appended its       *)
(* record or failed; after the return the collection no longer changes.    *)
C5_NoEarlyReturn ==
    /\ [](Returned => /\ received = Len(urls)
                      /\ \A t \in Tasks : pc[t] \in {"release", "done"})
    /\ [][Returned => results' = results]_vars

(* C5 witness: scrapeImages has returned two or more records while a       *)
(* goroutine has not yet ended.                                            *)
C5_Witness ==
    /\ Returned
    /\ Len(results) >= 2
    /\ \E t \in Tasks : pc[t] = "release"

(* C6: a failure stays in its own goroutine: once the run has come to rest *)
(* every goroutine whose URL does not fail has passed the gate and         *)
(* appended its record, and the failing ones have added nothing.           *)
C6_OthersUnaffected ==
    (Called /\ budget >= 1 /\ ~ENABLED Next) =>
        /\ \A t \in NonFailing : pc[t] \in {"unlock", "send", "release", "done"}
        /\ Len(results) = Cardinality(NonFailing)

(* C7: makeRequest never crashes the goroutine or the process; a goroutine *)
(* given a malformed URL ends with its error logged.                       *)
C7_FetcherNeverCrashes ==
    /\ ~crashed
    /\ \A t \in Tasks : (pc[t] = "done" /\ Malformed(urls[t])) => t \in errlog

(* C8: with budget 1 and 5 URLs at most one goroutine is between acquire   *)
(* and release, and the run does not come to rest before every one of the  *)
(* 5 goroutines has passed the gate and ended.                             *)
C8_OneAtATimeAllComplete ==
    (budget = 1 /\ Len(urls) = 5) =>
        /\ InFlight <= 1
        /\ ~ENABLED Next => \A t \in Tasks : pc[t] = "done"

(* C9 as stated: after a fatal error no goroutine was launched and no      *)
(* report artifact was produced or written; when the artifact could not be *)
(* created the sitemap was not read.                                       *)
C9_NoArtifactOnFatal ==
    mpc = "fatal" =>
        /\ launched = 0
        /\ ~fileOpen
        /\ file = << >>
        /\ ~sitemapRead

(* C9 amended: after a fatal error no goroutine was launched and nothing   *)
(* was written to the artifact; when the sitemap read failed the artifact  *)
(* had already been created and is empty; when the artifact could not be   *)
(* created the sitemap was not read.                                       *)
C9_FatalBeforeAnyTask ==
    mpc = "fatal" =>
        /\ launched = 0
        /\ file = << >>
        /\ fileOpen <=> sitemapRead

(* C9 witness: the sitemap read failed after the artifact was created.     *)
C9_Witness == mpc = "fatal" /\ sitemapRead /\ fileOpen

(* C10 as stated: a goroutine that has sent its completion signal holds no *)
(* token, so no token is held once scrapeImages has returned.              *)
C10_ReleaseBeforeSignal ==
    /\ \A t \in Tasks : sent[t] >= 1 => ~Holding(t)
    /\ Returned => tokens = 0

(* C10 amended: the order is acquire, fetch, extract, append, signal,      *)
(* release: a goroutine sends its completion signal while it still holds   *)
(* its token and releases it afterwards, as its last step; the tokens in   *)
(* the channel are those of the goroutines between acquire and release.    *)
C10_SignalBeforeRelease ==
    /\ [](tokens = InFlight)
    /\ [](\A t \in Tasks : pc[t] = "done" => ~Holding(t))
    /\ [][\A t \in Tasks : sent'[t] # sent[t] =>
              (pc[t] = "send" /\ pc'[t] = "release" /\ tokens' = tokens)]_vars

(* C10 witness: scrapeImages has returned while a goroutine still holds a  *)
(* token.                                                                  *)
C10_Witness == Returned /\ budget >= 1 /\ tokens > 0

(* C11: acquire and release are paired on every path: the tokens in the    *)
(* channel are exactly those of the goroutines between their acquire and   *)
(* their release, a token is put in only by a goroutine passing the gate   *)
(* and taken out only by a goroutine that holds one and thereby ends, and  *)
(* once every goroutine has ended no token is held.                        *)
C11_AcquireReleasePaired ==
    /\ [](tokens = InFlight)
    /\ []((launched = Len(urls) /\ \A t \in Tasks : pc[t] = "done") => tokens = 0)
    /\ [][/\ tokens' > tokens =>
                /\ tokens' = tokens + 1
                /\ \E t \in Tasks : pc[t] = "acquire" /\ pc'[t] = "fetch"
          /\ tokens' < tokens =>
                /\ tokens' = tokens - 1
                /\ \E t \in Tasks : Holding(t) /\ pc'[t] = "done"
          /\ \A t \in Tasks : (pc[t] = "done" /\ Len(urls') = Len(urls))
                                  => pc'[t] = "done"]_vars

(* C11 witness: a goroutine that succeeded, one whose fetch failed and one *)
(* whose extraction failed have all ended and no token is held.            *)
C11_Witness ==
    /\ budget >= 1
    /\ \A t \in Tasks : pc[t] = "done"
    /\ {"a", "down", "cut"} \subseteq {urls[t] : t \in Tasks}
    /\ tokens = 0

(* C12: appends are mutually exclusive and the lock is held only for the   *)
(* append: at most one goroutine is between Lock and Unlock, it is the     *)
(* holder of the mutex, the mutex is free when no goroutine is there (so   *)
(* never held during the fetch, the extraction, the wait at the gate or    *)
(* the completion send), and the collection has one record per append      *)
(* done.                                                                   *)
C12_AppendsSerialized ==
    /\ Cardinality({t \in Tasks : InCritical(t)}) <= 1
    /\ \A t \in Tasks : InCritical(t) <=> mu = t
    /\ mu # 0 => mu \in Tasks
    /\ Len(results) = Cardinality({t \in Tasks : Appended(t)})

(* C12 witness: a goroutine holds the mutex while another waits for it and *)
(* a third has already appended.                                           *)
C12_Witness ==
    /\ \E t \in Tasks : pc[t] = "append" /\ mu = t
    /\ \E t \in Tasks : pc[t] = "lock"
    /\ Len(results) = 1

(* C13: the collection is in the order of the appends (completion order),  *)
(* not in input order: every change of the collection puts the record of   *)
(* the goroutine that is appending at that moment at its end, whatever     *)
(* the index of its URL.  The witness shows input order lost with budget 1.*)
C13_CompletionOrder ==
    [][results' # results =>
          \E t \in Tasks : /\ pc[t] = "append"
                           /\ pc'[t] = "unlock"
                           /\ results' = Append(results, RecordOf(urls[t]))]_vars

(* C13 witness: with budget 1, scrapeImages has returned the records of    *)
(* three URLs in the reverse of their input order.                         *)
C13_Witness ==
    /\ Returned
    /\ budget = 1
    /\ urls = << "a", "a", "r" >>
    /\ results = << RecordOf("r"), RecordOf("a"), RecordOf("a") >>

(* C14: one goroutine per element of the list, whatever the budget, and no *)
(* de-duplication: the goroutines started are those of the first           *)
(* "launched" elements, all of them once the loop is over; a goroutine     *)
(* ends only after its own request (it has logged its error or sent its    *)
(* signal, unless its URL is malformed), so a URL occurring m times is     *)
(* requested by m goroutines; and the collection holds, for each page, one *)
(* record per goroutine of that page that has appended: m records when     *)
(* scrapeImages returns.                                                   *)
C14_OneTaskPerElement ==
    /\ launched <= Len(urls)
    /\ \A t \in Tasks : (pc[t] # "unborn") <=> (t <= launched)
    /\ \A t \in Tasks : (pc[t] = "done" /\ ~Malformed(urls[t])) => t \in errlog \/ sent[t] = 1
    /\ \A u \in URLS :
          ~Failing(u) =>
              /\ Cardinality({i \in 1 .. Len(results) : results[i] = RecordOf(u)})
                     = Cardinality({t \in Tasks : urls[t] = u /\ Appended(t)})
              /\ Returned =>
                     Cardinality({i \in 1 .. Len(results) : results[i] = RecordOf(u)})
                         = Cardinality({t \in Tasks : urls[t] = u})

(* C14 witness: three goroutines exist under a budget of 1, and the URL    *)
(* given three times has yielded three records.                            *)
C14_Witness ==
    /\ Returned
    /\ budget = 1
    /\ urls = << "a", "a", "a" >>
    /\ results = << RecordOf("a"), RecordOf("a"), RecordOf("a") >>

(* C15: a status outside 2xx is not a failure: the goroutine of a page     *)
(* that answers such a status with a readable body logs no error, goes on  *)
(* to the extraction and the append, and its record, carrying that status, *)
(* is in the collection from then on; the page counts as non-failing.      *)
C15_Non2xxIsNoFailure ==
    \A t \in Tasks :
        LET u == urls[t]
        IN  (/\ ~Malformed(u)
             /\ ~Unreachable(u)
             /\ BodyReadable(u)
             /\ StatusOf(u) \notin 200 .. 299) =>
                /\ t \notin errlog
                /\ t \in NonFailing
                /\ pc[t] \in {"unlock", "send", "release", "done"} =>
                      \E i \in 1 .. Len(results) :
                          /\ results[i].StatusCode = StatusOf(u)
                          /\ results[i].URL = FinalURL(u)
                /\ pc[t] = "done" => sent[t] = 1

(* C15 witness: scrapeImages has returned a record with status 404.        *)
C15_Witness ==
    /\ Returned
    /\ \E i \in 1 .. Len(results) : results[i].StatusCode = 404

C17_ReturnsAllOrNothing ==
    /\ SignalsSent <= Len(results)
    /\ \A t \in Tasks : sent[t] >= 1 => Appended(t)
    /\ Returned => Len(results) = Len(urls)

(* C17 witness: scrapeImages has returned three records for three URLs.    *)
C17_Witness ==
    /\ Returned
    /\ Len(urls) = 3
    /\ Len(results) = 3

(* C18: the completion channel has room for len(urls) signals and never    *)
(* holds more, and a goroutine that has reached its completion send finds  *)
(* room in the channel: the send does not wait for the join loop, and no   *)
(* token is kept while waiting for a receive.                              *)
C18_SendNeverBlocks ==
    /\ Len(worklist) <= Len(urls)
    /\ SignalsSent <= Len(urls)
    /\ \A t \in Tasks : pc[t] = "send" => Len(worklist) < WorklistCap
    /\ \A t \in Tasks : (pc[t] = "send" /\ Alive) => ENABLED Send(t)

(* C18 witness: nothing has been received yet, the channel holds the       *)
(* signals of all goroutines but one, and the last goroutine is at its     *)
(* send, holding its token.                                                *)
C18_Witness ==
    /\ Len(urls) >= 2
    /\ received = 0
    /\ Len(worklist) = Len(urls) - 1
    /\ \E t \in Tasks : pc[t] = "send" /\ Holding(t)

(* C19: with budget 0 and at least one URL no goroutine passes the gate:   *)
(* no request is made, nothing is logged, the collection stays empty, no   *)
(* signal is sent and scrapeImages does not return.                        *)
C19_BudgetZeroNeverReturns ==
    (budget = 0 /\ Len(urls) >= 1 /\ Called) =>
        /\ \A t \in Tasks : pc[t] \in {"unborn", "acquire"}
        /\ tokens = 0
        /\ results = << >>
        /\ errlog = {}
        /\ SignalsSent = 0
        /\ ~Returned

(* C19 witness: with budget 0 every goroutine is started and waits at the  *)
(* gate, and no step is possible any more.                                 *)
C19_Witness ==
    /\ budget = 0
    /\ Len(urls) >= 2
    /\ launched = Len(urls)
    /\ \A t \in Tasks : pc[t] = "acquire"
    /\ ~ENABLED Next

=============================================================================
